---- MODULE Spec2Model ----
(***************************************************************************)
(* Model of convert_gemma3_weights_orbax_to_hf.py: the two rule tables     *)
(* (_convert_siglip_weight, _convert_transformer_weights) and the loop of  *)
(* convert() that walks the flattened Orbax tree and fills hf_tree.        *)
(*                                                                         *)
(* Python str values are TLA+ strings; Len, SubSeq and \o act on them      *)
(* character by character, so the slicing and matching operators below     *)
(* compute what Python computes.  A numpy array is a record                *)
(* [shape, data] with data in row-major (C) order.                         *)
(***************************************************************************)
EXTENDS Integers, Sequences, FiniteSets, TLC

VARIABLES ckpt, config, target_dtype, pos, hf_tree, log, visited, emitted,
          pc, exc, result

vars ==
    <<ckpt, config, target_dtype, pos, hf_tree, log, visited, emitted,
      pc, exc, result>>

(***************************************************************************)
(* Python str operations                                                   *)
(***************************************************************************)
Min(a, b) == IF a <= b THEN a ELSE b

Max(a, b) == IF a >= b THEN a ELSE b

\* A slice bound k clamped into 0..n the way Python clamps it (negative
\* bounds count from the end).
ClampIdx(k, n) == IF k < 0 THEN Max(n + k, 0) ELSE Min(k, n)

\* s[a:b]
Slice(s, a, b) ==
    LET lo == ClampIdx(a, Len(s))
        hi == ClampIdx(b, Len(s))
    IN  IF lo >= hi THEN "" ELSE SubSeq(s, lo + 1, hi)

\* s[a:]
SliceFrom(s, a) == Slice(s, a, Len(s))

\* s[:b]
SliceTo(s, b) == Slice(s, 0, b)

\* s.startswith(p)
StartsWith(s, p) == Len(s) >= Len(p) /\ SubSeq(s, 1, Len(p)) = p

\* s.endswith(p)
EndsWith(s, p) ==
    Len(s) >= Len(p) /\ SubSeq(s, Len(s) - Len(p) + 1, Len(s)) = p

\* The 0-based offsets at which sub occurs in s.
Occurrences(s, sub) ==
    {k \in 0..(Len(s) - Len(sub)) : SubSeq(s, k + 1, k + Len(sub)) = sub}

\* s.find(sub): the lowest offset, or -1
Find(s, sub) ==
    LET occ == Occurrences(s, sub)
    IN  IF occ = {} THEN -1 ELSE CHOOSE k \in occ : \A j \in occ : k <= j

\* sub in s
Contains(s, sub) == Occurrences(s, sub) # {}

(***************************************************************************)
(* Module constants                                                        *)
(***************************************************************************)
_SIGLIP_BASE == "SigLiPFromPatches_0/siglip_encoder"

_SIGLIP_EMBEDDING == "SigLiPFromPatches_0/siglip_encoder/embedding"

_SIGLIP_TRANSFORMER_ENCODER_BLOCK ==
    "SigLiPFromPatches_0/siglip_encoder/Transformer/encoderblock_"

_SIGLIP_TRANSFORMER_ENCODER_BLOCK_LEN == Len(_SIGLIP_TRANSFORMER_ENCODER_BLOCK)

_SIGLIP_TRANSFORMER_ENCODER_NORM ==
    "SigLiPFromPatches_0/siglip_encoder/Transformer/encoder_norm"

_TRANSFORMER_DECODER_BLOCK == "transformer/layer_"

_TRANSFORMER_DECODER_BLOCK_LEN == Len(_TRANSFORMER_DECODER_BLOCK)

_TRANSFORMER_EMBEDDER == "transformer/embedder"

_TRANSFORMER_FINAL_NORM == "transformer/final_norm"

(***************************************************************************)
(* numpy arrays: [shape |-> <<d1, ..., dr>>, data |-> row-major elements]   *)
(***************************************************************************)
RECURSIVE Prod(_)
Prod(s) == IF s = <<>> THEN 1 ELSE Head(s) * Prod(Tail(s))

\* The multi-index (0-based, one entry per axis) of flat offset k in an
\* array of the given shape, C order.
RECURSIVE Unravel(_, _)
Unravel(k, shape) ==
    IF shape = <<>> THEN <<>>
    ELSE LET inner == Prod(Tail(shape))
         IN  <<k \div inner>> \o Unravel(k % inner, Tail(shape))

\* The flat offset of a multi-index, C order.
RECURSIVE Ravel(_, _)
Ravel(idx, shape) ==
    IF shape = <<>> THEN 0
    ELSE Head(idx) * Prod(Tail(shape)) + Ravel(Tail(idx), Tail(shape))

\* ndarray.transpose(*axes) is defined when axes is a permutation of the
\* array's axes; numpy raises ValueError otherwise.
CanTranspose(a, axes) ==
    /\ Len(axes) = Len(a.shape)
    /\ {axes[m] : m \in 1..Len(axes)} = 0..(Len(axes) - 1)

\* ndarray.transpose(*axes): axis m of the result is axis axes[m] of a.
Transpose(a, axes) ==
    LET r == Len(axes)
        newshape == [m \in 1..r |-> a.shape[axes[m] + 1]]
        src(k) ==
            LET j == Unravel(k, newshape)
                i == [d \in 1..r |-> j[CHOOSE m \in 1..r : axes[m] + 1 = d]]
            IN  Ravel(i, a.shape)
    IN  [shape |-> newshape,
         data |-> [k \in 1..Len(a.data) |-> a.data[src(k - 1) + 1]]]

\* ndarray.transpose() without arguments reverses the axes.
TransposeAll(a) ==
    LET r == Len(a.shape)
    IN  Transpose(a, [m \in 1..r |-> r - m])

\* The target shape with its -1 entry (at most one) inferred from the size.
ResolveShape(a, shape) ==
    LET known == Prod([m \in 1..Len(shape) |->
                          IF shape[m] = -1 THEN 1 ELSE shape[m]])
    IN  [m \in 1..Len(shape) |->
            IF shape[m] = -1 THEN Len(a.data) \div known ELSE shape[m]]

\* ndarray.reshape(shape) is defined when the element counts agree; numpy
\* raises ValueError otherwise.
CanReshape(a, shape) ==
    /\ Cardinality({m \in 1..Len(shape) : shape[m] = -1}) <= 1
    /\ \A m \in 1..Len(shape) : shape[m] = -1 \/ shape[m] >= 0
    /\ LET known == Prod([m \in 1..Len(shape) |->
                             IF shape[m] = -1 THEN 1 ELSE shape[m]])
       IN  IF \E m \in 1..Len(shape) : shape[m] = -1
           THEN known > 0 /\ Len(a.data) % known = 0
           ELSE known = Len(a.data)

\* ndarray.reshape(shape): same elements in C order under a new shape.
Reshape(a, shape) == [shape |-> ResolveShape(a, shape), data |-> a.data]

\* `x, y = weights` iterates the first axis and needs exactly two items;
\* Python raises ValueError otherwise.
CanUnpack2(a) == Len(a.shape) >= 1 /\ a.shape[1] = 2

\* weights[k], the k-th (0-based) sub-array along the first axis.
Item(a, k) ==
    LET m == Prod(Tail(a.shape))
    IN  [shape |-> Tail(a.shape),
         data |-> SubSeq(a.data, k * m + 1, (k + 1) * m)]

(***************************************************************************)
(* Precision cast of update_tree: astype("float32") and then                *)
(* torch's .type(target_dtype).  Elements are non-negative integers; a      *)
(* binary float with p significand bits holds them exactly below 2^p and    *)
(* rounds to nearest, ties to even, above.                                  *)
(***************************************************************************)
_DTYPES == {"float32", "bfloat16", "float16"}

\* Significand precision (bits, hidden bit included) of each dtype.
SignificandBits(dtype) ==
    CASE dtype = "float32" -> 24
      [] dtype = "bfloat16" -> 8
      [] dtype = "float16" -> 11

\* The spacing of representable values around x >= 0 for p bits.
RECURSIVE Ulp(_, _)
Ulp(x, p) == IF x < 2 ^ p THEN 1 ELSE 2 * Ulp(x \div 2, p)

RoundToDtype(x, dtype) ==
    LET q == Ulp(x, SignificandBits(dtype))
        lo == (x \div q) * q
        rem == x - lo
    IN  IF 2 * rem < q THEN lo
        ELSE IF 2 * rem > q THEN lo + q
        ELSE IF (lo \div q) % 2 = 0 THEN lo ELSE lo + q

\* torch.from_numpy(weights.astype("float32")).type(target_dtype)
Cast(a, dtype) ==
    [shape |-> a.shape,
     data |-> [k \in 1..Len(a.data) |->
                  RoundToDtype(RoundToDtype(a.data[k], "float32"), dtype)]]

(***************************************************************************)
(* Outcome of a rule-table call: it returns a value or raises.             *)
(***************************************************************************)
Return(v) == [raised |-> FALSE, exc |-> "", value |-> v]

\* raise ValueError(...) of the rule tables, named by the message's start;
\* "numpy" stands for the ValueError numpy (or the unpacking) raises.
Raise(msg) == [raised |-> TRUE, exc |-> msg, value |-> <<>>]

\* zip(a, b): pairs up to the shorter of the two.
Zip(a, b) == [k \in 1..Min(Len(a), Len(b)) |-> <<a[k], b[k]>>]

(***************************************************************************)
(* _convert_transformer_weights                                             *)
(***************************************************************************)
\* The check that ends _convert_transformer_weights, and its return.
CheckedZip(converted_paths, converted_weights) ==
    IF Len(converted_paths) # Len(converted_weights)
    THEN Raise("converted_paths and converted_weights should be the same length")
    ELSE Return(Zip(converted_paths, converted_weights))

\* EmbedderLeaf with the output head stored transposed.
EmbedderLeafTransposedHead(prop, weights) ==
    IF prop = "input_embedding"
    THEN CheckedZip(<<"language_model.model.embed_tokens.weight",
                      "language_model.lm_head.weight">>,
                    <<weights, TransposeAll(weights)>>)
    ELSE IF prop = "mm_input_embedding_extra" THEN Return(Zip(<<>>, <<>>))
    ELSE IF prop = "mm_output_embedding" THEN Return(Zip(<<>>, <<>>))
    ELSE Raise("Upexpected member")

\* path == _TRANSFORMER_EMBEDDER
EmbedderLeaf(prop, weights) ==
    IF prop = "input_embedding"
    THEN CheckedZip(<<"language_model.model.embed_tokens.weight",
                      "language_model.lm_head.weight">>,
                    <<weights, weights>>)
    ELSE IF prop = "mm_input_embedding_extra" THEN Return(Zip(<<>>, <<>>))
    ELSE IF prop = "mm_output_embedding" THEN Return(Zip(<<>>, <<>>))
    ELSE Raise("Upexpected member")

\* EmbedderSubpath without its final raise: every sub-path is dropped.
EmbedderSubpathSkipAll(path) == Return(Zip(<<>>, <<>>))

\* path.startswith(f"{_TRANSFORMER_EMBEDDER}/mm")
EmbedderSubpath(path) ==
    IF EndsWith(path, "/mm_input_projection") THEN Return(Zip(<<>>, <<>>))
    ELSE IF EndsWith(path, "/mm_soft_embedding_norm") THEN Return(Zip(<<>>, <<>>))
    ELSE Raise("Upexpected subpath")

\* layer_idx of a block path (the path with the fixed block prefix cut
\* off): what stands before the offset find("/") returns.  find returns -1
\* when there is no separator, and [:-1] then drops the last character.
LayerIdx(block_path) == SliceTo(block_path, Find(block_path, "/"))

\* What is left of the block path from that offset on.
BlockRest(block_path) == SliceFrom(block_path, Find(block_path, "/"))

\* attn/kv_einsum: key and value stacked on the first axis.
KvEinsum(cfg, base_path, weights) ==
    LET kv_head_dim == cfg.num_key_value_heads * cfg.head_dim
        target == <<kv_head_dim, cfg.hidden_size>>
        ok(w) == /\ CanTranspose(w, <<0, 2, 1>>)
                 /\ CanReshape(Transpose(w, <<0, 2, 1>>), target)
    IN  IF ~CanUnpack2(weights) THEN Raise("numpy")
        ELSE LET k_proj_weights == Item(weights, 0)
                 v_proj_weights == Item(weights, 1)
             IN  IF ~ok(k_proj_weights) \/ ~ok(v_proj_weights)
                 THEN Raise("numpy")
                 ELSE CheckedZip(
                        <<base_path \o ".self_attn.k_proj.weight",
                          base_path \o ".self_attn.v_proj.weight">>,
                        <<Reshape(Transpose(k_proj_weights, <<0, 2, 1>>), target),
                          Reshape(Transpose(v_proj_weights, <<0, 2, 1>>), target)>>)

\* GatingEinsum that forgets the up projection.
GatingEinsumGateOnly(base_path, weights) ==
    IF ~CanUnpack2(weights) THEN Raise("numpy")
    ELSE CheckedZip(<<base_path \o ".mlp.gate_proj.weight">>, <<Item(weights, 0)>>)

\* GatingEinsum with the two halves taken in the wrong order.
GatingEinsumSwapped(base_path, weights) ==
    IF ~CanUnpack2(weights) THEN Raise("numpy")
    ELSE CheckedZip(<<base_path \o ".mlp.gate_proj.weight",
                      base_path \o ".mlp.up_proj.weight">>,
                    <<Item(weights, 1), Item(weights, 0)>>)

\* mlp/gating_einsum: gate and up stacked on the first axis.
GatingEinsum(base_path, weights) ==
    IF ~CanUnpack2(weights) THEN Raise("numpy")
    ELSE LET gate_proj_weight == Item(weights, 0)
             up_proj_weight == Item(weights, 1)
         IN  CheckedZip(<<base_path \o ".mlp.gate_proj.weight",
                          base_path \o ".mlp.up_proj.weight">>,
                        <<gate_proj_weight, up_proj_weight>>)

\* A rule that permutes the axes and reshapes to a 2-D target.
PermuteReshape(dest, weights, axes, target) ==
    IF ~CanTranspose(weights, axes) \/ ~CanReshape(Transpose(weights, axes), target)
    THEN Raise("numpy")
    ELSE CheckedZip(<<dest>>, <<Reshape(Transpose(weights, axes), target)>>)

\* path.startswith(_TRANSFORMER_DECODER_BLOCK)
DecoderBlock(cfg, path, weights) ==
    LET decoder_block_path == SliceFrom(path, _TRANSFORMER_DECODER_BLOCK_LEN)
        layer_idx == LayerIdx(decoder_block_path)
        base_path == "language_model.model.layers." \o layer_idx
        attn_head_dim == cfg.num_attention_heads * cfg.head_dim
    IN  IF EndsWith(path, "attn/attn_vec_einsum")
        THEN PermuteReshape(base_path \o ".self_attn.o_proj.weight", weights,
                            <<2, 0, 1>>, <<cfg.hidden_size, attn_head_dim>>)
        ELSE IF EndsWith(path, "attn/_key_norm")
        THEN CheckedZip(<<base_path \o ".self_attn.k_norm.weight">>, <<weights>>)
        ELSE IF EndsWith(path, "attn/kv_einsum")
        THEN KvEinsum(cfg, base_path, weights)
        ELSE IF EndsWith(path, "attn/q_einsum")
        THEN PermuteReshape(base_path \o ".self_attn.q_proj.weight", weights,
                            <<0, 2, 1>>, <<attn_head_dim, cfg.hidden_size>>)
        ELSE IF EndsWith(path, "attn/_query_norm")
        THEN CheckedZip(<<base_path \o ".self_attn.q_norm.weight">>, <<weights>>)
        ELSE IF EndsWith(path, "mlp/gating_einsum")
        THEN GatingEinsum(base_path, weights)
        ELSE IF EndsWith(path, "mlp/linear")
        THEN CheckedZip(<<base_path \o ".mlp.down_proj.weight">>,
                        <<TransposeAll(weights)>>)
        ELSE IF EndsWith(path, "post_attention_norm")
        THEN CheckedZip(<<base_path \o ".post_attention_layernorm.weight">>,
                        <<weights>>)
        ELSE IF EndsWith(path, "post_ffw_norm")
        THEN CheckedZip(<<base_path \o ".post_feedforward_layernorm.weight">>,
                        <<weights>>)
        ELSE IF EndsWith(path, "pre_attention_norm")
        THEN CheckedZip(<<base_path \o ".input_layernorm.weight">>, <<weights>>)
        ELSE IF EndsWith(path, "pre_ffw_norm")
        THEN CheckedZip(<<base_path \o ".pre_feedforward_layernorm.weight">>,
                        <<weights>>)
        ELSE Raise("Upexpected path in Decoder Block")

\* The text-branch rule table: the outcome's value is the sequence of
\* (destination path, array) pairs the returned zip yields.
_convert_transformer_weights(cfg, paths, weights) ==
    LET path == paths[1]
        prop == paths[2]
    IN  IF path = _TRANSFORMER_EMBEDDER THEN EmbedderLeaf(prop, weights)
        ELSE IF StartsWith(path, _TRANSFORMER_EMBEDDER \o "/mm")
        THEN EmbedderSubpath(path)
        ELSE IF path = _TRANSFORMER_FINAL_NORM
        THEN CheckedZip(<<"language_model.model.norm.weight">>, <<weights>>)
        ELSE IF StartsWith(path, _TRANSFORMER_DECODER_BLOCK)
        THEN DecoderBlock(cfg, path, weights)
        ELSE Raise("Upexpected path")

(***************************************************************************)
(* _convert_siglip_weight                                                   *)
(***************************************************************************)
\* weights.reshape(-1, config.hidden_size)
ReshapeHidden(cfg, weights) == Reshape(weights, <<-1, cfg.hidden_size>>)

\* path == _SIGLIP_BASE: no leaf-property is looked at.
SiglipBase(cfg, weights) ==
    IF ~CanReshape(weights, <<-1, cfg.hidden_size>>) THEN Raise("numpy")
    ELSE Return(<<"vision_model.vision_model.embeddings.position_embedding.weight",
                  ReshapeHidden(cfg, weights)>>)

\* path == _SIGLIP_EMBEDDING
SiglipEmbedding(prop, weights) ==
    IF prop = "kernel"
    THEN IF ~CanTranspose(weights, <<3, 2, 0, 1>>) THEN Raise("numpy")
         ELSE Return(<<"vision_model.vision_model.embeddings.patch_embedding.weight",
                       Transpose(weights, <<3, 2, 0, 1>>)>>)
    ELSE IF prop = "bias"
    THEN Return(<<"vision_model.vision_model.embeddings.patch_embedding.bias",
                  weights>>)
    ELSE Raise("Upexpected member")

\* encoder_block_path.startswith("/LayerNorm")
SiglipLayerNorm(normalized_path, path, prop, weights) ==
    LET norm == normalized_path \o
                    (IF EndsWith(path, "_0") THEN ".layer_norm1" ELSE ".layer_norm2")
    IN  IF prop = "scale" THEN Return(<<norm \o ".weight", TransposeAll(weights)>>)
        ELSE IF prop = "bias" THEN Return(<<norm \o ".bias", weights>>)
        ELSE Raise("Upexpected member")

\* encoder_block_path.startswith("/MlpBlock_0")
SiglipMlp(normalized_path, encoder_block_path, prop, weights) ==
    LET fc == normalized_path \o
                  (IF Contains(encoder_block_path, "/Dense_0")
                   THEN ".mlp.fc1" ELSE ".mlp.fc2")
    IN  IF prop = "kernel" THEN Return(<<fc \o ".weight", TransposeAll(weights)>>)
        ELSE IF prop = "bias" THEN Return(<<fc \o ".bias", weights>>)
        ELSE Raise("Upexpected member")

\* SiglipAttention whose last branch takes any other suffix for /value.
SiglipAttentionDefaultValue(cfg, normalized_path, encoder_block_path, prop, weights) ==
    LET proj == IF EndsWith(encoder_block_path, "/key") THEN ".self_attn.k_proj"
                ELSE IF EndsWith(encoder_block_path, "/out") THEN ".self_attn.out_proj"
                ELSE IF EndsWith(encoder_block_path, "/query") THEN ".self_attn.q_proj"
                ELSE ".self_attn.v_proj"
    IN  IF prop # "bias" /\ prop # "kernel" THEN Raise("Upexpected member")
        ELSE IF ~CanReshape(weights, <<-1, cfg.hidden_size>>) THEN Raise("numpy")
        ELSE IF prop = "bias"
        THEN Return(<<normalized_path \o proj \o ".bias",
                      Reshape(ReshapeHidden(cfg, weights), <<-1>>)>>)
        ELSE Return(<<normalized_path \o proj \o ".weight",
                      TransposeAll(ReshapeHidden(cfg, weights))>>)

\* encoder_block_path.startswith("/MultiHeadDotProductAttention_0")
SiglipAttention(cfg, normalized_path, encoder_block_path, prop, weights) ==
    LET proj == IF EndsWith(encoder_block_path, "/key") THEN ".self_attn.k_proj"
                ELSE IF EndsWith(encoder_block_path, "/out") THEN ".self_attn.out_proj"
                ELSE IF EndsWith(encoder_block_path, "/query") THEN ".self_attn.q_proj"
                ELSE IF EndsWith(encoder_block_path, "/value") THEN ".self_attn.v_proj"
                ELSE ""
    IN  IF proj = ""
        THEN Raise("Upexpected path in SigLIP Transformer MultiHeadDotProductAttention_0")
        ELSE IF prop # "bias" /\ prop # "kernel" THEN Raise("Upexpected member")
        ELSE IF ~CanReshape(weights, <<-1, cfg.hidden_size>>) THEN Raise("numpy")
        ELSE IF prop = "bias"
        THEN Return(<<normalized_path \o proj \o ".bias",
                      Reshape(ReshapeHidden(cfg, weights), <<-1>>)>>)
        ELSE Return(<<normalized_path \o proj \o ".weight",
                      TransposeAll(ReshapeHidden(cfg, weights))>>)

\* path.startswith(_SIGLIP_TRANSFORMER_ENCODER_BLOCK)
SiglipEncoderBlock(cfg, path, prop, weights) ==
    LET block_path == SliceFrom(path, _SIGLIP_TRANSFORMER_ENCODER_BLOCK_LEN)
        layer_idx == LayerIdx(block_path)
        encoder_block_path == BlockRest(block_path)
        normalized_path == "vision_model.vision_model.encoder.layers." \o layer_idx
    IN  IF StartsWith(encoder_block_path, "/LayerNorm")
        THEN SiglipLayerNorm(normalized_path, path, prop, weights)
        ELSE IF StartsWith(encoder_block_path, "/MlpBlock_0")
        THEN SiglipMlp(normalized_path, encoder_block_path, prop, weights)
        ELSE IF StartsWith(encoder_block_path, "/MultiHeadDotProductAttention_0")
        THEN SiglipAttention(cfg, normalized_path, encoder_block_path, prop, weights)
        ELSE Raise("Upexpected path in SigLIP Transformer Encoder Block")

\* path == _SIGLIP_TRANSFORMER_ENCODER_NORM
SiglipEncoderNorm(prop, weights) ==
    IF prop = "scale"
    THEN Return(<<"vision_model.vision_model.post_layernorm.weight",
                  TransposeAll(weights)>>)
    ELSE IF prop = "bias"
    THEN Return(<<"vision_model.vision_model.post_layernorm.bias", weights>>)
    ELSE Raise("Upexpected member")

\* The vision-branch rule table: the outcome's value is the returned
\* (normalized_path, updated_weights) tuple.
_convert_siglip_weight(cfg, paths, weights) ==
    LET path == paths[1]
        prop == paths[2]
    IN  IF path = _SIGLIP_BASE THEN SiglipBase(cfg, weights)
        ELSE IF path = _SIGLIP_EMBEDDING THEN SiglipEmbedding(prop, weights)
        ELSE IF StartsWith(path, _SIGLIP_TRANSFORMER_ENCODER_BLOCK)
        THEN SiglipEncoderBlock(cfg, path, prop, weights)
        ELSE IF path = _SIGLIP_TRANSFORMER_ENCODER_NORM
        THEN SiglipEncoderNorm(prop, weights)
        ELSE Raise("Upexpected path")

(***************************************************************************)
(* Configurations                                                          *)
(***************************************************************************)
\* Python's None.
None == [none |-> TRUE]

\* Gemma3TextConfig: the fields the rule table reads, at small sizes.
TextConfig ==
    [hidden_size |-> 2, num_attention_heads |-> 2,
     num_key_value_heads |-> 1, head_dim |-> 2]

\* Gemma3VisionConfig: the field the rule table reads, at a small size.
VisionConfig == [hidden_size |-> 2]

_VARIANT_GEMMA_3_1B == "gemma3_1b"

_VARIANT_GEMMA_3_4B == "gemma3_4b"

_VARIANT_GEMMA_3_12B == "gemma3_12b"

_VARIANT_GEMMA_3_27B == "gemma3_27b"

\* Only the 1B variant has no vision tower.
_VARIANTS ==
    [v \in {_VARIANT_GEMMA_3_1B, _VARIANT_GEMMA_3_4B,
            _VARIANT_GEMMA_3_12B, _VARIANT_GEMMA_3_27B} |->
        [text_config |-> TextConfig,
         vision_config |-> IF v = _VARIANT_GEMMA_3_1B THEN None ELSE VisionConfig]]

(***************************************************************************)
(* Source trees                                                            *)
(***************************************************************************)
\* A test array of the given shape with pairwise distinct elements, some
\* of them beyond what bfloat16 holds exactly.
Iota(shape) == [shape |-> shape, data |-> [k \in 1..Prod(shape) |-> 250 + k]]

\* One item of tree.flatten_with_path(ckpt): ((path, prop), value).
Entry(path, prop, shape) == <<<<path, prop>>, Iota(shape)>>

\* The leaves the trees are made of, in the order flatten_with_path
\* enumerates a dict of dicts: sorted by path, then by leaf-property.  A
\* (path, prop) listed twice gives the leaf two possible arrays.
Menu ==
    <<
       Entry("SigLiPFromPatches_0/siglip_encoder",
             "pos_embedding", <<1, 3, 2>>),
       Entry("SigLiPFromPatches_0/siglip_encoder",
             "unknown", <<1, 3, 2>>),
       Entry("SigLiPFromPatches_0/siglip_encoder/Transformer/encoder_norm",
             "bias", <<2>>),
       Entry("SigLiPFromPatches_0/siglip_encoder/Transformer/encoder_norm",
             "kernel", <<2>>),
       Entry("SigLiPFromPatches_0/siglip_encoder/Transformer/encoder_norm",
             "scale", <<2>>),
       Entry("SigLiPFromPatches_0/siglip_encoder/Transformer/encoderblock_/LayerNorm_0",
             "scale", <<2>>),
       Entry("SigLiPFromPatches_0/siglip_encoder/Transformer/encoderblock_0",
             "scale", <<2>>),
       Entry("SigLiPFromPatches_0/siglip_encoder/Transformer/encoderblock_0/LayerNorm_0",
             "bias", <<2>>),
       Entry("SigLiPFromPatches_0/siglip_encoder/Transformer/encoderblock_0/LayerNorm_0",
             "kernel", <<2>>),
       Entry("SigLiPFromPatches_0/siglip_encoder/Transformer/encoderblock_0/LayerNorm_0",
             "scale", <<2>>),
       Entry("SigLiPFromPatches_0/siglip_encoder/Transformer/encoderblock_0/LayerNorm_1",
             "scale", <<2>>),
       Entry("SigLiPFromPatches_0/siglip_encoder/Transformer/encoderblock_0/LayerNorm_unknown",
             "scale", <<2>>),
       Entry("SigLiPFromPatches_0/siglip_encoder/Transformer/encoderblock_0/MlpBlock_0/Dense_0",
             "kernel", <<2, 3>>),
       Entry("SigLiPFromPatches_0/siglip_encoder/Transformer/encoderblock_0/MlpBlock_0/Dense_0",
             "scale", <<3>>),
       Entry("SigLiPFromPatches_0/siglip_encoder/Transformer/encoderblock_0/MlpBlock_0/Dense_1",
             "bias", <<2>>),
       Entry("SigLiPFromPatches_0/siglip_encoder/Transformer/encoderblock_0/MlpBlock_0/Dense_1",
             "kernel", <<3, 2>>),
       Entry("SigLiPFromPatches_0/siglip_encoder/Transformer/encoderblock_0/MlpBlock_0/unknown",
             "kernel", <<3, 2>>),
       Entry("SigLiPFromPatches_0/siglip_encoder/Transformer/encoderblock_0/MultiHeadDotProductAttention_0/key",
             "kernel", <<2, 1, 2>>),
       Entry("SigLiPFromPatches_0/siglip_encoder/Transformer/encoderblock_0/MultiHeadDotProductAttention_0/key",
             "scale", <<1, 2>>),
       Entry("SigLiPFromPatches_0/siglip_encoder/Transformer/encoderblock_0/MultiHeadDotProductAttention_0/out",
             "kernel", <<1, 2, 2>>),
       Entry("SigLiPFromPatches_0/siglip_encoder/Transformer/encoderblock_0/MultiHeadDotProductAttention_0/query",
             "bias", <<3>>),
       Entry("SigLiPFromPatches_0/siglip_encoder/Transformer/encoderblock_0/MultiHeadDotProductAttention_0/query",
             "kernel", <<2, 1, 2>>),
       Entry("SigLiPFromPatches_0/siglip_encoder/Transformer/encoderblock_0/MultiHeadDotProductAttention_0/unknown",
             "kernel", <<2, 1, 2>>),
       Entry("SigLiPFromPatches_0/siglip_encoder/Transformer/encoderblock_0/MultiHeadDotProductAttention_0/value",
             "bias", <<1, 2>>),
       Entry("SigLiPFromPatches_0/siglip_encoder/Transformer/encoderblock_0/Unknown_0",
             "kernel", <<2>>),
       Entry("SigLiPFromPatches_0/siglip_encoder/Transformer/encoderblock_12/MlpBlock_0/Dense_0",
             "kernel", <<2, 3>>),
       Entry("SigLiPFromPatches_0/siglip_encoder/embedding",
             "bias", <<2>>),
       Entry("SigLiPFromPatches_0/siglip_encoder/embedding",
             "kernel", <<1, 2, 3, 2>>),
       Entry("SigLiPFromPatches_0/siglip_encoder/embedding",
             "scale", <<2>>),
       Entry("SigLiPFromPatches_0/unknown",
             "w", <<2>>),
       Entry("transformer/embedder",
             "input_embedding", <<3, 2>>),
       Entry("transformer/embedder",
             "mm_input_embedding_extra", <<1, 2>>),
       Entry("transformer/embedder",
             "mm_output_embedding", <<1, 2>>),
       Entry("transformer/embedder",
             "unknown", <<2>>),
       Entry("transformer/embedder/mm_input_projection",
             "w", <<2, 2>>),
       Entry("transformer/embedder/mm_soft_embedding_norm",
             "scale", <<2>>),
       Entry("transformer/embedder/mm_unknown",
             "w", <<2>>),
       Entry("transformer/final_norm",
             "bias", <<2>>),
       Entry("transformer/final_norm",
             "scale", <<2>>),
       Entry("transformer/layer_/pre_ffw_norm",
             "scale", <<2>>),
       Entry("transformer/layer_0/attn/_key_norm",
             "scale", <<2>>),
       Entry("transformer/layer_0/attn/_query_norm",
             "scale", <<2>>),
       Entry("transformer/layer_0/attn/attn_vec_einsum",
             "w", <<2, 2, 2>>),
       Entry("transformer/layer_0/attn/kv_einsum",
             "w", <<2, 1, 2, 2>>),
       Entry("transformer/layer_0/attn/kv_einsum",
             "w", <<3, 1, 2, 2>>),
       Entry("transformer/layer_0/attn/q_einsum",
             "w", <<2, 2, 2>>),
       Entry("transformer/layer_0/mlp/gating_einsum",
             "w", <<2, 3, 2>>),
       Entry("transformer/layer_0/mlp/linear",
             "w", <<3, 2>>),
       Entry("transformer/layer_0/mlp/unknown_leaf",
             "w", <<2>>),
       Entry("transformer/layer_0/post_attention_norm",
             "scale", <<2>>),
       Entry("transformer/layer_0/post_ffw_norm",
             "scale", <<2>>),
       Entry("transformer/layer_0/pre_attention_norm",
             "scale", <<2>>),
       Entry("transformer/layer_0/pre_ffw_norm",
             "scale", <<2>>),
       Entry("transformer/layer_1/mlp/gating_einsum",
             "w", <<2, 3, 2>>),
       Entry("transformer/layer_post_ffw_norm",
             "scale", <<2>>),
       Entry("transformer/unknown",
             "w", <<2>>)
    >>

\* The longest source tree, in leaves.
MaxLeaves == 2

\* The keys of a dict are distinct and flatten_with_path enumerates them
\* sorted: a tree is a strictly increasing choice of menu positions in
\* which no (path, prop) occurs twice.
Increasing(p) ==
    \A k \in 1..(Len(p) - 1) :
        p[k] < p[k + 1] /\ Menu[p[k]][1] # Menu[p[k + 1]][1]

Picks ==
    UNION {{p \in [1..n -> 1..Len(Menu)] : Increasing(p)} : n \in 0..MaxLeaves}

Trees == {[k \in 1..Len(p) |-> Menu[p[k]]] : p \in Picks}

Init ==
    /\ ckpt \in Trees
    /\ config \in {_VARIANTS[v] : v \in DOMAIN _VARIANTS}
    /\ target_dtype \in _DTYPES
    /\ pos = 0
    /\ hf_tree = <<>>
    /\ log = <<>>
    /\ visited = <<>>
    /\ emitted = <<>>
    /\ pc = "loop"
    /\ exc = ""
    /\ result = None

(***************************************************************************)
(* convert                                                                  *)
(***************************************************************************)
\* DictSet that rebinds the dict instead of adding to it.
DictReplace(d, key, value) == [k \in {key} |-> value]

\* hf_tree[path] = value on a dict.
DictSet(d, key, value) ==
    [k \in (DOMAIN d) \cup {key} |-> IF k = key THEN value ELSE d[k]]

\* update_tree(path, weights) with `value` the leaf at hand: the
\* logging.info record, then the assignment of the cast tensor.
LogRecord(path, value, weights) ==
    [path |-> path, from_shape |-> value.shape, to_shape |-> weights.shape]

update_tree(tree, path, weights) == DictSet(tree, path, Cast(weights, target_dtype))

\* StripLanguageModel that leaves the separator in place.
StripLanguageModelShort(path) == SliceFrom(path, Len("language_model"))

\* path[len("language_model."):]
StripLanguageModel(path) == SliceFrom(path, Len("language_model."))

\* The destination path of a text-branch pair as convert stores it.
TextKey(path) ==
    IF config.vision_config = None THEN StripLanguageModel(path) ELSE path

\* The inner loop of convert over the pairs of one text leaf.
RECURSIVE UpdateAll(_, _)
UpdateAll(tree, pairs) ==
    IF pairs = <<>> THEN tree
    ELSE UpdateAll(update_tree(tree, TextKey(pairs[1][1]), pairs[1][2]), Tail(pairs))

LogAll(value, pairs) ==
    [k \in 1..Len(pairs) |-> LogRecord(TextKey(pairs[k][1]), value, pairs[k][2])]

\* The loop of convert is running and has a leaf left.
HasNext == pc = "loop" /\ pos < Len(ckpt)

\* The leaf the loop is at: (paths, value) with paths = (path, prop).
Leaf == ckpt[pos + 1]

\* paths[0].startswith("SigLiPFromPatches_")
IsVisionLeaf(paths) == StartsWith(paths[1], "SigLiPFromPatches_")

\* The leaf is done: on to the next one.
Advance ==
    /\ pos' = pos + 1
    /\ visited' = Append(visited, pos + 1)
    /\ UNCHANGED <<ckpt, config, target_dtype, pc, exc, result>>

\* Abort as it would be with the exception caught and the loop going on.
AbortAndContinue(msg) ==
    /\ exc' = msg
    /\ pos' = pos + 1
    /\ visited' = Append(visited, pos + 1)
    /\ emitted' = Append(emitted, <<>>)
    /\ UNCHANGED <<ckpt, config, target_dtype, hf_tree, log, pc, result>>

\* An exception leaves convert: nothing is returned.
Abort(msg) ==
    /\ pc' = "raised"
    /\ exc' = msg
    /\ visited' = Append(visited, pos + 1)
    /\ UNCHANGED <<ckpt, config, target_dtype, pos, hf_tree, log, emitted, result>>

\* A vision leaf with no vision tower configured: `continue`.
SkipVision ==
    /\ HasNext
    /\ IsVisionLeaf(Leaf[1])
    /\ config.vision_config = None
    /\ UNCHANGED <<hf_tree, log>>
    /\ emitted' = Append(emitted, <<>>)
    /\ Advance

\* A vision leaf the vision rule table converts.
ConvertVision ==
    /\ HasNext
    /\ IsVisionLeaf(Leaf[1])
    /\ config.vision_config # None
    /\ \E out \in {_convert_siglip_weight(config.vision_config, Leaf[1], Leaf[2])} :
           /\ ~out.raised
           /\ hf_tree' = update_tree(hf_tree, out.value[1], out.value[2])
           /\ log' = Append(log, LogRecord(out.value[1], Leaf[2], out.value[2]))
           /\ emitted' = Append(emitted, <<out.value>>)
    /\ Advance

\* A vision leaf the vision rule table rejects.
RaiseVision ==
    /\ HasNext
    /\ IsVisionLeaf(Leaf[1])
    /\ config.vision_config # None
    /\ \E out \in {_convert_siglip_weight(config.vision_config, Leaf[1], Leaf[2])} :
           /\ out.raised
           /\ Abort(out.exc)

\* Any other leaf, converted by the text rule table into 0, 1 or 2 pairs.
ConvertText ==
    /\ HasNext
    /\ ~IsVisionLeaf(Leaf[1])
    /\ \E out \in {_convert_transformer_weights(config.text_config, Leaf[1], Leaf[2])} :
           /\ ~out.raised
           /\ hf_tree' = UpdateAll(hf_tree, out.value)
           /\ log' = log \o LogAll(Leaf[2], out.value)
           /\ emitted' = Append(emitted, out.value)
    /\ Advance

\* Any other leaf the text rule table rejects.
RaiseText ==
    /\ HasNext
    /\ ~IsVisionLeaf(Leaf[1])
    /\ \E out \in {_convert_transformer_weights(config.text_config, Leaf[1], Leaf[2])} :
           /\ out.raised
           /\ Abort(out.exc)

\* return ConversionResult(state_tree=hf_tree, config=config)
ReturnResult ==
    /\ pc = "loop"
    /\ pos = Len(ckpt)
    /\ pc' = "returned"
    /\ result' = [state_tree |-> hf_tree, config |-> config]
    /\ UNCHANGED <<ckpt, config, target_dtype, pos, hf_tree, log, visited, emitted, exc>>

Next ==
    \/ SkipVision
    \/ ConvertVision
    \/ RaiseVision
    \/ ConvertText
    \/ RaiseText
    \/ ReturnResult

(***************************************************************************)
(* Properties                                                              *)
(***************************************************************************)
\* The leaves convert has finished with, by position.
Done == 1..pos

\* The positions of the text-branch and of the vision-branch leaves.
TextLeaves == {j \in 1..Len(ckpt) : ~IsVisionLeaf(ckpt[j][1])}

VisionLeaves == {j \in 1..Len(ckpt) : IsVisionLeaf(ckpt[j][1])}

\* What the rule tables answer for leaf j.
TextOutcome(j) ==
    _convert_transformer_weights(config.text_config, ckpt[j][1], ckpt[j][2])

VisionOutcome(j) ==
    _convert_siglip_weight(config.vision_config, ckpt[j][1], ckpt[j][2])

\* The destination keys written so far, in the order of the writes.
Written == [k \in 1..Len(log) |-> log[k].path]

RECURSIVE SumLen(_)
SumLen(seqs) == IF seqs = <<>> THEN 0 ELSE Len(Head(seqs)) + SumLen(Tail(seqs))

Digits == {"0", "1", "2", "3", "4", "5", "6", "7", "8", "9"}

\* s is a non-empty string of decimal digits.
IsNumber(s) == Len(s) > 0 /\ \A k \in 1..Len(s) : SubSeq(s, k, k) \in Digits

\* C1: a run never writes the same destination key twice (the trees of
\* the model have pairwise distinct (path, leaf-property) pairs, and both
\* a vision-present and a vision-absent configuration occur).
C1_NoKeyWrittenTwice ==
    \A a, b \in 1..Len(Written) : a # b => Written[a] # Written[b]

\* C2: with vision_config None no key of hf_tree comes from the vision
\* branch, vision leaves emit nothing, and hf_tree holds exactly the keys
\* of the text branch, each with the leading "language_model." cut off and
\* nothing else.
C2_VisionSkip ==
    config.vision_config = None =>
        /\ \A key \in DOMAIN hf_tree :
              /\ ~StartsWith(key, "vision_model.")
              /\ ~Contains(key, "SigLiPFromPatches_")
              /\ \E j \in Done \cap TextLeaves : \E m \in 1..Len(emitted[j]) :
                    emitted[j][m][1] = "language_model." \o key
        /\ \A j \in Done \cap VisionLeaves : emitted[j] = <<>>
        /\ \A j \in Done \cap TextLeaves : \A m \in 1..Len(emitted[j]) :
              /\ StartsWith(emitted[j][m][1], "language_model.")
              /\ \E key \in DOMAIN hf_tree :
                    "language_model." \o key = emitted[j][m][1]
        /\ {Written[k] : k \in 1..Len(Written)} = DOMAIN hf_tree

\* Witness of C2: no vision tower, a vision leaf was passed over and a text
\* leaf then stored two keys.
C2_Witness ==
    /\ config.vision_config = None
    /\ pos = 2
    /\ 1 \in VisionLeaves
    /\ Len(emitted[2]) = 2
    /\ Cardinality(DOMAIN hf_tree) = 2

\* The fan-out each text-branch rule declares.
DeclaredFanOut(paths) ==
    IF paths[1] = "transformer/embedder"
    THEN IF paths[2] = "input_embedding" THEN 2 ELSE 0
    ELSE IF StartsWith(paths[1], "transformer/embedder/mm") THEN 0
    ELSE IF EndsWith(paths[1], "attn/kv_einsum") THEN 2
    ELSE IF EndsWith(paths[1], "mlp/gating_einsum") THEN 2
    ELSE 1

DecoderSuffixes ==
    {"attn/attn_vec_einsum", "attn/_key_norm", "attn/kv_einsum", "attn/q_einsum",
     "attn/_query_norm", "mlp/gating_einsum", "mlp/linear", "post_attention_norm",
     "post_ffw_norm", "pre_attention_norm", "pre_ffw_norm"}

\* The leaves the text-branch rules name.
TextRecognized(paths) ==
    \/ /\ paths[1] = "transformer/embedder"
       /\ paths[2] \in {"input_embedding", "mm_input_embedding_extra",
                        "mm_output_embedding"}
    \/ /\ StartsWith(paths[1], "transformer/embedder/mm")
       /\ \/ EndsWith(paths[1], "/mm_input_projection")
          \/ EndsWith(paths[1], "/mm_soft_embedding_norm")
    \/ paths[1] = "transformer/final_norm"
    \/ /\ StartsWith(paths[1], "transformer/layer_")
       /\ \E suffix \in DecoderSuffixes : EndsWith(paths[1], suffix)

\* C3: a text leaf a rule names yields exactly the rule's declared number
\* of pairs (2, 0 or 1) unless numpy rejects its array's shape; the
\* lengths of paths and arrays never disagree, so the internal-consistency
\* error is never raised; convert stores one entry per pair.
C3_FanOut ==
    /\ \A j \in Done \cap TextLeaves :
          /\ TextRecognized(ckpt[j][1])
          /\ Len(emitted[j]) = DeclaredFanOut(ckpt[j][1])
          /\ \A m \in 1..Len(emitted[j]) : Len(emitted[j][m]) = 2
    /\ exc # "converted_paths and converted_weights should be the same length"
    /\ pc = "raised" /\ pos + 1 \in TextLeaves /\ TextRecognized(ckpt[pos + 1][1]) =>
          exc = "numpy"
    /\ Len(log) = SumLen(emitted)

\* Witness of C3: a kv_einsum leaf, an input_embedding leaf or a skipped
\* leaf has been converted, and a one-pair leaf with it.
C3_Witness ==
    /\ pos = 2
    /\ \E j \in Done : DeclaredFanOut(ckpt[j][1]) = 1 /\ Len(emitted[j]) = 1
    /\ \E j \in Done : /\ EndsWith(ckpt[j][1][1], "attn/kv_einsum")
                       /\ Len(emitted[j]) = 2

\* The rest of an encoder-block path after the layer index, "" for a path
\* that is no encoder-block path.
EncoderRest(path) ==
    IF StartsWith(path, "SigLiPFromPatches_0/siglip_encoder/Transformer/encoderblock_")
    THEN BlockRest(SliceFrom(path,
            Len("SigLiPFromPatches_0/siglip_encoder/Transformer/encoderblock_")))
    ELSE ""

AttentionSuffixes == {"/key", "/out", "/query", "/value"}

\* The vision leaves that have a destination when, as C4 has it, unknown
\* sub-paths under the normalization and MLP markers are errors: only the
\* sub-paths LayerNorm_0, LayerNorm_1, MlpBlock_0/Dense_0 and
\* MlpBlock_0/Dense_1 are known there.
VisionKnownStrict(paths) ==
    LET rest == EncoderRest(paths[1])
    IN  \/ paths[1] = "SigLiPFromPatches_0/siglip_encoder"
        \/ /\ paths[1] = "SigLiPFromPatches_0/siglip_encoder/embedding"
           /\ paths[2] \in {"kernel", "bias"}
        \/ /\ rest \in {"/LayerNorm_0", "/LayerNorm_1"}
           /\ paths[2] \in {"scale", "bias"}
        \/ /\ rest \in {"/MlpBlock_0/Dense_0", "/MlpBlock_0/Dense_1"}
           /\ paths[2] \in {"kernel", "bias"}
        \/ /\ StartsWith(rest, "/MultiHeadDotProductAttention_0")
           /\ \E suffix \in AttentionSuffixes : EndsWith(rest, suffix)
           /\ paths[2] \in {"kernel", "bias"}
        \/ /\ paths[1] = "SigLiPFromPatches_0/siglip_encoder/Transformer/encoder_norm"
           /\ paths[2] \in {"scale", "bias"}

\* The vision leaves that have a destination in the code: every sub-path
\* under the normalization marker and under the MLP marker has one.
VisionKnown(paths) ==
    LET rest == EncoderRest(paths[1])
    IN  \/ paths[1] = "SigLiPFromPatches_0/siglip_encoder"
        \/ /\ paths[1] = "SigLiPFromPatches_0/siglip_encoder/embedding"
           /\ paths[2] \in {"kernel", "bias"}
        \/ /\ StartsWith(rest, "/LayerNorm")
           /\ paths[2] \in {"scale", "bias"}
        \/ /\ StartsWith(rest, "/MlpBlock_0")
           /\ paths[2] \in {"kernel", "bias"}
        \/ /\ StartsWith(rest, "/MultiHeadDotProductAttention_0")
           /\ \E suffix \in AttentionSuffixes : EndsWith(rest, suffix)
           /\ paths[2] \in {"kernel", "bias"}
        \/ /\ paths[1] = "SigLiPFromPatches_0/siglip_encoder/Transformer/encoder_norm"
           /\ paths[2] \in {"scale", "bias"}

\* What convert got for a leaf is one (destination path, array) pair of
\* the vision tower.
ReturnsOnePair(pairs) ==
    /\ Len(pairs) = 1
    /\ Len(pairs[1]) = 2
    /\ StartsWith(pairs[1][1], "vision_model.vision_model.")

\* C4 as claimed: the vision rule table returns one pair or raises, and it
\* returns only for a recognized path shape with an expected
\* leaf-property; unknown sub-paths under the normalization, MLP and
\* attention markers raise.
C4_UnknownSubPathsRaise ==
    config.vision_config # None =>
        \A j \in Done \cap VisionLeaves :
            /\ Len(emitted[j]) = 1
            /\ VisionKnownStrict(ckpt[j][1])

\* C4 as amended: the vision rule table returns one pair or raises; it
\* returns only for the root path (any leaf-property), the patch
\* embedding, a sub-path under the attention marker that ends in /key,
\* /out, /query or /value, the encoder norm, and ANY sub-path under the
\* normalization or MLP marker, each with a leaf-property of its expected
\* set; for those it raises only when numpy rejects the array's shape.
C4_VisionTotality ==
    config.vision_config # None =>
        /\ \A j \in Done \cap VisionLeaves :
              /\ ReturnsOnePair(emitted[j])
              /\ VisionKnown(ckpt[j][1])
              /\ emitted[j][1][1] \in DOMAIN hf_tree
        /\ pc = "raised" /\ pos + 1 \in VisionLeaves =>
              /\ exc # ""
              /\ VisionKnown(ckpt[pos + 1][1]) => exc = "numpy"
        /\ HasNext /\ pos + 1 \in VisionLeaves /\ ~VisionKnown(ckpt[pos + 1][1]) =>
              VisionOutcome(pos + 1).raised

\* Witness of C4: an unknown sub-path under the MLP marker went to fc2,
\* and the next leaf, unknown under the attention marker, raised.
C4_Witness ==
    /\ config.vision_config # None
    /\ pos = 1
    /\ pc = "raised"
    /\ EncoderRest(ckpt[1][1][1]) = "/MlpBlock_0/unknown"
    /\ "vision_model.vision_model.encoder.layers.0.mlp.fc2.weight" \in DOMAIN hf_tree
    /\ EncoderRest(ckpt[2][1][1]) = "/MultiHeadDotProductAttention_0/unknown"

\* The two multimodal embedder leaves C5 names.
NamedSkip(paths) ==
    /\ paths[1] = "transformer/embedder"
    /\ paths[2] \in {"mm_input_embedding_extra", "mm_output_embedding"}

\* The two multimodal embedder sub-paths the code skips as well.
SubpathSkip(paths) ==
    /\ StartsWith(paths[1], "transformer/embedder/mm")
    /\ \/ EndsWith(paths[1], "/mm_input_projection")
       \/ EndsWith(paths[1], "/mm_soft_embedding_norm")

\* C5 as claimed: a text leaf yields zero pairs without an error only in
\* the two named embedder leaf cases; a leaf no rule matches raises.
C5_OnlyTwoSkips ==
    \A j \in Done \cap TextLeaves : emitted[j] = <<>> => NamedSkip(ckpt[j][1])

\* C5 as amended: a text leaf yields zero pairs without an error only in
\* four cases, the two named embedder leaves and the embedder sub-paths
\* under "transformer/embedder/mm" that end in "/mm_input_projection" or
\* "/mm_soft_embedding_norm"; a leaf no rule matches raises and is never
\* dropped.
C5_OnlyDeliberateSkips ==
    /\ \A j \in Done \cap TextLeaves :
          /\ TextRecognized(ckpt[j][1])
          /\ (emitted[j] = <<>>) <=>
                (NamedSkip(ckpt[j][1]) \/ SubpathSkip(ckpt[j][1]))
    /\ HasNext /\ pos + 1 \in TextLeaves /\ ~TextRecognized(ckpt[pos + 1][1]) =>
          TextOutcome(pos + 1).raised

\* Witness of C5: a skipped embedder sub-path was passed without an
\* error and the leaf after it, which no rule matches, raised.
C5_Witness ==
    /\ pos = 1
    /\ pc = "raised"
    /\ SubpathSkip(ckpt[1][1])
    /\ emitted[1] = <<>>
    /\ ~TextRecognized(ckpt[2][1])

\* The rule lookup convert makes for leaf j raises (for a vision leaf
\* without a vision tower there is no lookup).
Raises(j) ==
    IF j \in VisionLeaves
    THEN config.vision_config # None /\ VisionOutcome(j).raised
    ELSE TextOutcome(j).raised

\* C6: a run returns the complete mapping after every leaf, or aborts at
\* the first leaf whose rule lookup raises; after the error nothing more
\* happens: no later leaf is visited, hf_tree keeps the entries of the
\* leaves before the failing one, and no ConversionResult is returned.
\* The leaf path "transformer/layer_0/mlp/unknown_leaf" aborts the run.
\* (The lookup is stated for the leaf just finished: every finished leaf
\* was that leaf in an earlier state of the run, with the same ckpt and
\* config.)
C6_FailFast ==
    /\ pos >= 1 => ~Raises(pos)
    /\ Len(emitted) = pos
    /\ Len(log) = SumLen(emitted)
    /\ DOMAIN hf_tree = {Written[k] : k \in 1..Len(Written)}
    /\ pc = "loop" => result = None /\ Len(visited) = pos
    /\ pc = "returned" =>
          /\ pos = Len(ckpt)
          /\ Len(visited) = Len(ckpt)
          /\ result = [state_tree |-> hf_tree, config |-> config]
    /\ pc = "raised" =>
          /\ result = None
          /\ pos < Len(ckpt)
          /\ Raises(pos + 1)
          /\ Len(visited) = pos + 1
          /\ ~ENABLED Next
    /\ \A k \in 1..Len(visited) :
          ckpt[visited[k]][1][1] = "transformer/layer_0/mlp/unknown_leaf" =>
              pc = "raised" /\ visited[k] = pos + 1

\* Witness of C6: the unknown_leaf path raised as the second leaf, with
\* the first leaf's entries in hf_tree.
C6_Witness ==
    /\ pc = "raised"
    /\ pos = 1
    /\ ckpt[2][1][1] = "transformer/layer_0/mlp/unknown_leaf"
    /\ Cardinality(DOMAIN hf_tree) = 2
    /\ result = None

\* C7: an input_embedding leaf of "transformer/embedder" yields two pairs,
\* the token-embedding table and then the output head, both carrying the
\* source array as it is; the two stored entries are equal element for
\* element and have the source array's shape.
C7_SharedEmbedding ==
    \A j \in Done :
        ckpt[j][1] = <<"transformer/embedder", "input_embedding">> =>
            /\ Len(emitted[j]) = 2
            /\ EndsWith(emitted[j][1][1], ".model.embed_tokens.weight")
            /\ EndsWith(emitted[j][2][1], ".lm_head.weight")
            /\ emitted[j][1][2] = ckpt[j][2]
            /\ emitted[j][2][2] = ckpt[j][2]
            /\ \E table, head \in DOMAIN hf_tree :
                  /\ EndsWith(table, "model.embed_tokens.weight")
                  /\ EndsWith(head, "lm_head.weight")
                  /\ hf_tree[table] = hf_tree[head]
                  /\ hf_tree[table].shape = ckpt[j][2].shape
                  /\ Len(hf_tree[head].data) = Len(ckpt[j][2].data)

\* Witness of C7: an input_embedding leaf has been converted.
C7_Witness ==
    /\ pos >= 1
    /\ \E j \in Done : ckpt[j][1] = <<"transformer/embedder", "input_embedding">>
    /\ Cardinality(DOMAIN hf_tree) >= 2

\* What stands between the block prefix and the next "/" of a per-layer
\* path, "" when there is no such separator.
IndexSegment(path, prefix) ==
    LET rest == SliceFrom(path, Len(prefix))
    IN  IF Find(rest, "/") = -1 THEN "" ELSE SliceTo(rest, Find(rest, "/"))

\* The slice weights[k] of an array stacked along axis 0, element by
\* element.
IsSliceOf(part, whole, k) ==
    LET size == Len(whole.data) \div whole.shape[1]
    IN  /\ part.shape = Tail(whole.shape)
        /\ Len(part.data) = size
        /\ \A e \in 1..size : part.data[e] = whole.data[k * size + e]

\* C8: a decoder-block leaf that ends in "mlp/gating_einsum" with an array
\* of shape (2, A, B) yields two pairs for its layer, gate_proj.weight and
\* then up_proj.weight, which are the slices 0 and 1 along axis 0, of
\* shape (A, B), neither transposed nor reshaped.
C8_GateUpSplit ==
    \A j \in Done :
        /\ StartsWith(ckpt[j][1][1], "transformer/layer_")
        /\ EndsWith(ckpt[j][1][1], "mlp/gating_einsum")
        /\ Len(ckpt[j][2].shape) = 3
        /\ ckpt[j][2].shape[1] = 2
        => /\ Len(emitted[j]) = 2
           /\ LET layer == IndexSegment(ckpt[j][1][1], "transformer/layer_")
              IN  /\ emitted[j][1][1] =
                        "language_model.model.layers." \o layer \o ".mlp.gate_proj.weight"
                  /\ emitted[j][2][1] =
                        "language_model.model.layers." \o layer \o ".mlp.up_proj.weight"
           /\ IsSliceOf(emitted[j][1][2], ckpt[j][2], 0)
           /\ IsSliceOf(emitted[j][2][2], ckpt[j][2], 1)

\* Witness of C8: the gating_einsum leaves of two layers have been split.
C8_Witness ==
    /\ pos = 2
    /\ \A j \in Done : EndsWith(ckpt[j][1][1], "mlp/gating_einsum")
    /\ Cardinality(DOMAIN hf_tree) = 4

\* C9, in every state: the leaves visited are 1, 2, ... in order, each
\* once; a run that returns has visited all of them; before the first
\* leaf hf_tree is empty.
C9_VisitedInOrder ==
    /\ visited = [k \in 1..Len(visited) |-> k]
    /\ Len(visited) \in {pos, pos + 1}
    /\ Len(visited) <= Len(ckpt)
    /\ pc = "returned" => Len(visited) = Len(ckpt)
    /\ visited = <<>> => hf_tree = <<>>

\* C9, in every step: no key leaves hf_tree, the source tree is not
\* modified, and at most the next leaf is visited.
C9_InsertOnly ==
    /\ DOMAIN hf_tree \subseteq DOMAIN hf_tree'
    /\ ckpt' = ckpt
    /\ visited' = visited \/ visited' = Append(visited, Len(visited) + 1)

\* C9: convert visits every leaf once, in the order of the enumeration;
\* hf_tree starts empty and its key set only grows; the source tree is
\* never modified.
C9_SinglePass == [](C9_VisitedInOrder) /\ [][C9_InsertOnly]_vars

\* Witness of C9: a run has returned after two leaves that stored entries.
C9_Witness ==
    /\ pc = "returned"
    /\ visited = <<1, 2>>
    /\ Cardinality(DOMAIN hf_tree) >= 3

\* Leaf j's path has the block prefix, and every key the leaf produced
\* is "<base><i>.<...>" with <i> the number in the path.
IndexKept(j, prefix, base) ==
    StartsWith(ckpt[j][1][1], prefix) =>
        \A m \in 1..Len(emitted[j]) :
            /\ IsNumber(IndexSegment(ckpt[j][1][1], prefix))
            /\ StartsWith(emitted[j][m][1],
                          base \o IndexSegment(ckpt[j][1][1], prefix) \o ".")

\* C10: the layer index in every key of an accepted per-layer path is the
\* non-negative integer between the block prefix and the next "/" of the
\* path, never empty, truncated or non-numeric.
C10_LayerIndexPreserved ==
    \A j \in Done :
        /\ IndexKept(j, "transformer/layer_", "language_model.model.layers.")
        /\ IndexKept(j, "SigLiPFromPatches_0/siglip_encoder/Transformer/encoderblock_",
                     "vision_model.vision_model.encoder.layers.")

Spec == Init /\ [][Next]_vars

====
